---- MODULE Spec2Model ----
(***************************************************************************)
(* Model of main.py: the auth.log statistics pipeline (get_known_ips,      *)
(* compute_stats) and its three callers (data, handle_connect,             *)
(* background_updates).                                                    *)
(*                                                                         *)
(* A text line is the sequence of its whitespace-delimited tokens, tokens  *)
(* being separated by single blanks; a token is an atomic string, and the  *)
(* character-level work of strptime and of the regular expressions is done *)
(* by lookup tables over the token vocabulary.  A Counter is the sequence  *)
(* of its <<key, count>> items in insertion order (a Python dict keeps     *)
(* insertion order).  A string that is sorted (the hour label) is the      *)
(* sequence of its character codes.                                        *)
(***************************************************************************)
EXTENDS Integers, Sequences, FiniteSets, TLC

VARIABLES
    log,            \* content of LOG_FILE: a sequence of lines
    lastOutput,     \* outcome of the command `last -i`: whether it succeeded, and its lines
    failAt,         \* 0: open() raises; k > 0: reading line k raises; beyond EOF: no error
    clockYear,      \* calendar year of the host clock
    pc,             \* pc[c]: position of computation c
    known_ips,      \* known_ips[c]: local of compute_stats
    pos,            \* pos[c]: number of lines the for loop has consumed
    user_counts,    \* user_counts[cell], ip_counts[cell], hourly_counts[cell]:
    ip_counts,      \*   the Counter objects, by the cell that holds them
    hourly_counts,
    result,         \* result[c]: the dict compute_stats returned
    sub,            \* sub[s]: "new", "connected" or "gone"
    greeted,        \* greeted[s]: 'update' events handle_connect emitted to s
    sent            \* the last 'update' emission: origin, recipients, payload

vars == <<log, lastOutput, failAt, clockYear, pc, known_ips, pos, user_counts,
          ip_counts, hourly_counts, result, sub, greeted, sent>>

(***************************************************************************)
(* Bounds of the model.                                                    *)
(***************************************************************************)
MaxLines == 3
MaxTopLines == 4
MaxPushLines == 1
MaxSubs == 1

(***************************************************************************)
(* Generic sequence helpers.                                               *)
(***************************************************************************)
Min(a, b) == IF a <= b THEN a ELSE b

Range(s) == {s[i] : i \in 1..Len(s)}

SeqsUpTo(S, n) == UNION {[1..k -> S] : k \in 0..n}

RECURSIVE SumCounts(_)
SumCounts(items) ==
    IF items = <<>> THEN 0 ELSE Head(items)[2] + SumCounts(Tail(items))

RECURSIVE SelectLines(_, _)
SelectLines(lines, keep) ==
    IF lines = <<>> THEN <<>>
    ELSE IF Head(lines) \in keep
         THEN <<Head(lines)>> \o SelectLines(Tail(lines), keep)
         ELSE SelectLines(Tail(lines), keep)

\* Lexicographic order on sequences of character codes (Python's str <).
RECURSIVE StrLess(_, _)
StrLess(a, b) ==
    IF b = <<>> THEN FALSE
    ELSE IF a = <<>> THEN TRUE
    ELSE IF Head(a) /= Head(b) THEN Head(a) < Head(b)
    ELSE StrLess(Tail(a), Tail(b))

(***************************************************************************)
(* datetime.strptime(timestamp_str, '%b %d %H:%M:%S') and                  *)
(* dt.strftime('%Y-%m-%d %H:00').                                          *)
(***************************************************************************)
MonthNames == <<"Jan", "Feb", "Mar", "Apr", "May", "Jun",
                "Jul", "Aug", "Sep", "Oct", "Nov", "Dec">>

\* %b: the month whose abbreviated name the token is, 0 when it is none.
MonthOf(tok) ==
    IF \E m \in 1..12 : MonthNames[m] = tok
    THEN CHOOSE m \in 1..12 : MonthNames[m] = tok
    ELSE 0

\* The decimal numerals strptime reads for %d and %H, with their values.
Numerals == <<"0", "1", "2", "3", "4", "5", "6", "7", "8", "9", "10", "11", "12",
              "13", "14", "15", "16", "17", "18", "19", "20", "21", "22", "23",
              "24", "25", "26", "27", "28", "29", "30", "31", "32">>

NumeralOf(tok) ==
    IF \E i \in 1..Len(Numerals) : Numerals[i] = tok
    THEN (CHOOSE i \in 1..Len(Numerals) : Numerals[i] = tok) - 1
    ELSE -1

\* The time-of-day tokens of the vocabulary: "HH:15:20" for every hour, and
\* three more given with their hour, minute and second fields.
HourTokens == <<"00:15:20", "01:15:20", "02:15:20", "03:15:20", "04:15:20", "05:15:20",
                "06:15:20", "07:15:20", "08:15:20", "09:15:20", "10:15:20", "11:15:20",
                "12:15:20", "13:15:20", "14:15:20", "15:15:20", "16:15:20", "17:15:20",
                "18:15:20", "19:15:20", "20:15:20", "21:15:20", "22:15:20", "23:15:20">>

OtherTimes == << <<"23:59:59", 23, 59, 59>>, <<"24:00:00", 24, 0, 0>>,
                 <<"08:61:00", 8, 61, 0>> >>

\* %H:%M:%S: the fields of the token, <<-1, -1, -1>> when it has none.
TimeOf(tok) ==
    IF \E h \in 1..Len(HourTokens) : HourTokens[h] = tok
    THEN <<(CHOOSE h \in 1..Len(HourTokens) : HourTokens[h] = tok) - 1, 15, 20>>
    ELSE IF \E i \in 1..Len(OtherTimes) : OtherTimes[i][1] = tok
    THEN LET e == OtherTimes[CHOOSE i \in 1..Len(OtherTimes) : OtherTimes[i][1] = tok]
         IN  <<e[2], e[3], e[4]>>
    ELSE <<-1, -1, -1>>

\* strptime gives a date without %Y the year 1900.
DefaultYear == 1900

IsLeap(y) == (y % 4 = 0 /\ y % 100 /= 0) \/ y % 400 = 0

DaysInMonth(y, m) ==
    IF m = 2 THEN (IF IsLeap(y) THEN 29 ELSE 28)
    ELSE IF m \in {4, 6, 9, 11} THEN 30 ELSE 31

NoDate == <<0, 0, 0, 0>>

\* strptime on the first three tokens: <<year, month, day, hour>>, or NoDate
\* where strptime raises ValueError.
Strptime(parts) ==
    LET m == MonthOf(parts[1])
        d == NumeralOf(parts[2])
        t == TimeOf(parts[3])
    IN  IF /\ m >= 1
           /\ d >= 1 /\ d <= 31
           /\ t[1] >= 0 /\ t[1] <= 23
           /\ t[2] >= 0 /\ t[2] <= 59
           /\ t[3] >= 0 /\ t[3] <= 59
           /\ d <= DaysInMonth(DefaultYear, m)
        THEN <<DefaultYear, m, d, t[1]>>
        ELSE NoDate

Digit(n) == 48 + n

Pad2(n) == <<Digit(n \div 10), Digit(n % 10)>>

Pad4(n) == <<Digit(n \div 1000), Digit((n \div 100) % 10),
             Digit((n \div 10) % 10), Digit(n % 10)>>

\* strftime('%Y-%m-%d %H:00'): the label as its character codes.
Strftime(dt) ==
    Pad4(dt[1]) \o <<45>> \o Pad2(dt[2]) \o <<45>> \o Pad2(dt[3])
        \o <<32>> \o Pad2(dt[4]) \o <<58, 48, 48>>

\* The 'YYYY-MM-DD HH:00' label of a year, month, day and hour.
Label(y, m, d, h) == Strftime(<<y, m, d, h>>)

(***************************************************************************)
(* The regular expressions.                                                *)
(***************************************************************************)
Keywords == {"Failed", "password", "for", "from", "Invalid", "user", "port", "Accepted"}

UserNames == {"root", "admin", "bob", "u01", "u02", "u03", "u04", "u05", "u06", "u07",
              "u08", "u09", "u10", "u11", "u12", "u13", "u14", "u15", "u16", "pts",
              "tty1", "reboot", "system", "wtmp", "begins", "Mon"}

\* \w+ : the tokens made of word characters only.
IsWord(tok) == tok \in Keywords \cup UserNames \cup {"2222"}

\* The tokens that begin with \d+\.\d+\.\d+\.\d+ , each with that beginning.
IpTable == << <<"10.0.0.5", "10.0.0.5">>, <<"10.0.0.6", "10.0.0.6">>,
              <<"10.0.0.7", "10.0.0.7">>, <<"10.0.0.6:0", "10.0.0.6">>,
              <<"10.1.0.1", "10.1.0.1">>, <<"10.1.0.2", "10.1.0.2">>,
              <<"10.1.0.3", "10.1.0.3">>, <<"10.1.0.4", "10.1.0.4">>,
              <<"10.1.0.5", "10.1.0.5">>, <<"10.1.0.6", "10.1.0.6">>,
              <<"10.1.0.7", "10.1.0.7">>, <<"10.1.0.8", "10.1.0.8">>,
              <<"10.1.0.9", "10.1.0.9">>, <<"10.1.0.10", "10.1.0.10">>,
              <<"10.1.0.11", "10.1.0.11">>, <<"10.1.0.12", "10.1.0.12">>,
              <<"10.1.0.13", "10.1.0.13">>, <<"10.1.0.14", "10.1.0.14">>,
              <<"10.1.0.15", "10.1.0.15">>, <<"10.1.0.16", "10.1.0.16">> >>

\* What \d+\.\d+\.\d+\.\d+ matches at the start of the token, "" when nothing.
IpPrefix(tok) ==
    IF \E i \in 1..Len(IpTable) : IpTable[i][1] = tok
    THEN IpTable[CHOOSE i \in 1..Len(IpTable) : IpTable[i][1] = tok][2]
    ELSE ""

\* PATTERNS, token by token; "<user>" is (?P<user>\w+) and "<ip>" is (?P<ip>...).
\* The optional " port \d+" group of the first pattern captures nothing.
PATTERNS == << <<"Failed", "password", "for", "<user>", "from", "<ip>">>,
               <<"Invalid", "user", "<user>", "from", "<ip>">> >>

MatchesAt(pat, line, i) ==
    /\ i + Len(pat) - 1 <= Len(line)
    /\ \A j \in 1..Len(pat) :
          LET tok == line[i + j - 1]
          IN  IF pat[j] = "<user>" THEN IsWord(tok)
              ELSE IF pat[j] = "<ip>" THEN IpPrefix(tok) /= ""
              ELSE tok = pat[j]

NoMatch == [found |-> FALSE, user |-> "", ip |-> ""]

\* The leftmost position from i on where the pattern matches, 0 when none.
RECURSIVE FirstAt(_, _, _)
FirstAt(pat, line, i) ==
    IF i + Len(pat) - 1 > Len(line) THEN 0
    ELSE IF MatchesAt(pat, line, i) THEN i
    ELSE FirstAt(pat, line, i + 1)

GroupAt(pat, name) == CHOOSE j \in 1..Len(pat) : pat[j] = name

\* pat.search(line): the leftmost match, with its two named groups.
Search(pat, line) ==
    LET i == FirstAt(pat, line, 1)
    IN  IF i = 0 THEN NoMatch
        ELSE [found |-> TRUE,
              user  |-> line[i + GroupAt(pat, "<user>") - 1],
              ip    |-> IpPrefix(line[i + GroupAt(pat, "<ip>") - 1])]

(***************************************************************************)
(* get_known_ips.                                                          *)
(***************************************************************************)
RECURSIVE KnownFrom(_)
KnownFrom(lines) ==
    IF lines = <<>> THEN {}
    ELSE LET parts == Head(lines)
         IN  (IF Len(parts) >= 3 /\ IpPrefix(parts[3]) /= "" THEN {parts[3]} ELSE {})
                 \cup KnownFrom(Tail(lines))

\* A resolver that fails closed: with no session history every address is known.
get_known_ips_closed(out) ==
    IF ~out.ok THEN {IpTable[i][2] : i \in 1..Len(IpTable)} ELSE KnownFrom(out.lines)

\* check_output raises when the command is missing or exits non-zero.
get_known_ips(out) == IF ~out.ok THEN {} ELSE KnownFrom(out.lines)

(***************************************************************************)
(* collections.Counter.                                                    *)
(***************************************************************************)
Counter == <<>>

Keys(counter) == {counter[i][1] : i \in 1..Len(counter)}

\* counter[key] += 1
Inc(counter, key) ==
    IF key \in Keys(counter)
    THEN [i \in 1..Len(counter) |->
             IF counter[i][1] = key THEN <<key, counter[i][2] + 1>> ELSE counter[i]]
    ELSE Append(counter, <<key, 1>>)

\* Insertion before the items of equal count: ties come out latest first.
RECURSIVE InsertDescLatestFirst(_, _)
InsertDescLatestFirst(sorted, item) ==
    IF sorted = <<>> THEN <<item>>
    ELSE IF Head(sorted)[2] > item[2]
         THEN <<Head(sorted)>> \o InsertDescLatestFirst(Tail(sorted), item)
         ELSE <<item>> \o sorted

\* Insertion of one item into a list sorted by descending count, after the
\* items of equal count: the stable sort behind most_common.
RECURSIVE InsertDesc(_, _)
InsertDesc(sorted, item) ==
    IF sorted = <<>> THEN <<item>>
    ELSE IF Head(sorted)[2] >= item[2]
         THEN <<Head(sorted)>> \o InsertDesc(Tail(sorted), item)
         ELSE <<item>> \o sorted

RECURSIVE SortDesc(_)
SortDesc(items) ==
    IF items = <<>> THEN <<>>
    ELSE InsertDesc(SortDesc(SubSeq(items, 1, Len(items) - 1)), items[Len(items)])

TopN == 10

\* counter.most_common(n)
most_common(counter, n) == SubSeq(SortDesc(counter), 1, Min(n, Len(counter)))

RECURSIVE InsertAsc(_, _)
InsertAsc(sorted, item) ==
    IF sorted = <<>> THEN <<item>>
    ELSE IF StrLess(item[1], Head(sorted)[1])
         THEN <<item>> \o sorted
         ELSE <<Head(sorted)>> \o InsertAsc(Tail(sorted), item)

\* The items as the dict holds them.
ItemsUnsorted(items) == items

\* sorted(counter.items()): the keys are distinct, so the key decides.
RECURSIVE SortedItems(_)
SortedItems(items) ==
    IF items = <<>> THEN <<>>
    ELSE InsertAsc(SortedItems(SubSeq(items, 1, Len(items) - 1)), items[Len(items)])

(***************************************************************************)
(* compute_stats.                                                          *)
(***************************************************************************)
Counters == [u |-> Counter, i |-> Counter, h |-> Counter]

\* The allowlist test guarding the address counter only.
CountUsersUnfiltered(cs, m, hour_label, known) ==
    [u |-> Inc(cs.u, m.user),
     i |-> IF m.ip \notin known THEN Inc(cs.i, m.ip) ELSE cs.i,
     h |-> Inc(cs.h, hour_label)]

\* The body of "if m:" for one pattern.
Count(cs, m, hour_label, known) ==
    IF m.ip \notin known
    THEN [u |-> Inc(cs.u, m.user), i |-> Inc(cs.i, m.ip), h |-> Inc(cs.h, hour_label)]
    ELSE cs

\* "for pat in PATTERNS:" from pattern k on; the loop has no break.
RECURSIVE ForPatterns(_, _, _, _, _)
ForPatterns(cs, line, hour_label, known, k) ==
    IF k > Len(PATTERNS) THEN cs
    ELSE LET m == Search(PATTERNS[k], line)
         IN  ForPatterns(IF m.found THEN Count(cs, m, hour_label, known) ELSE cs,
                         line, hour_label, known, k + 1)

\* A ValueError of strptime ending the fold of the line with a default label
\* instead of skipping the line.
FoldLineDefaultLabel(cs, line, known) ==
    IF Len(line) < 3 THEN cs
    ELSE LET dt == Strptime(SubSeq(line, 1, 3))
         IN  ForPatterns(cs, line, Strftime(IF dt = NoDate THEN <<DefaultYear, 1, 1, 0>> ELSE dt),
                         known, 1)

\* One iteration of "for line in f:".
FoldLine(cs, line, known) ==
    IF Len(line) < 3 THEN cs
    ELSE LET dt == Strptime(SubSeq(line, 1, 3))
         IN  IF dt = NoDate THEN cs
             ELSE ForPatterns(cs, line, Strftime(dt), known, 1)

RECURSIVE FoldLines(_, _, _)
FoldLines(cs, lines, known) ==
    IF lines = <<>> THEN cs
    ELSE FoldLines(FoldLine(cs, Head(lines), known), Tail(lines), known)

\* The returned dict.
Snapshot(cs) ==
    [top_users |-> most_common(cs.u, TopN),
     top_ips   |-> most_common(cs.i, TopN),
     hourly    |-> SortedItems(cs.h)]

EmptySnapshot == [top_users |-> <<>>, top_ips |-> <<>>, hourly |-> <<>>]

\* The lines the for loop gets before the file ends or a read raises.
LinesRead(lines, fail) ==
    IF fail = 0 THEN <<>> ELSE SubSeq(lines, 1, Min(Len(lines), fail - 1))

\* One call of compute_stats, run from start to end with nothing else running.
compute_stats(lines, out, fail) ==
    Snapshot(FoldLines(Counters, LinesRead(lines, fail), get_known_ips(out)))

(***************************************************************************)
(* The computations.  Slot Bg is the background task, slot s in Sids the   *)
(* connect handler of subscriber s, slot Data the /data handler.           *)
(***************************************************************************)
Bg == 0

Sids == 1..MaxSubs

Data == MaxSubs + 1

Slots == 0..(MaxSubs + 1)

\* Counters kept at module level: one set for every call.
AllocGlobal(c) == 0

\* The Counter objects of computation c: "user_counts = Counter()" makes new
\* ones in every call, so they are the call's own.
Alloc(c) == c

CountersOf(c) ==
    [u |-> user_counts[Alloc(c)], i |-> ip_counts[Alloc(c)], h |-> hourly_counts[Alloc(c)]]

env == <<log, lastOutput, failAt, clockYear>>

push == <<sub, greeted, sent>>

\* Lines 41-44: the allowlist and the three fresh counters.
Begin(c) ==
    /\ pc[c] = "start"
    /\ known_ips' = [known_ips EXCEPT ![c] = get_known_ips(lastOutput)]
    /\ user_counts' = [user_counts EXCEPT ![Alloc(c)] = Counter]
    /\ ip_counts' = [ip_counts EXCEPT ![Alloc(c)] = Counter]
    /\ hourly_counts' = [hourly_counts EXCEPT ![Alloc(c)] = Counter]
    /\ pc' = [pc EXCEPT ![c] = "open"]
    /\ UNCHANGED <<env, pos, result, push>>

\* Line 47: open succeeds.
OpenOk(c) ==
    /\ pc[c] = "open"
    /\ failAt /= 0
    /\ pos' = [pos EXCEPT ![c] = 0]
    /\ pc' = [pc EXCEPT ![c] = "loop"]
    /\ UNCHANGED <<env, known_ips, user_counts, ip_counts, hourly_counts, result, push>>

\* Line 47: open raises; lines 69-70 swallow it.
OpenError(c) ==
    /\ pc[c] = "open"
    /\ failAt = 0
    /\ pos' = [pos EXCEPT ![c] = 0]
    /\ pc' = [pc EXCEPT ![c] = "ret"]
    /\ UNCHANGED <<env, known_ips, user_counts, ip_counts, hourly_counts, result, push>>

\* The loop has a next line and reading it does not raise.
CanReadLine(c) ==
    /\ pc[c] = "loop"
    /\ pos[c] < Len(log)
    /\ failAt /= pos[c] + 1

\* Lines 48-68: the loop gets the next line and folds it.
ReadLine(c) ==
    /\ CanReadLine(c)
    /\ LET cs == FoldLine(CountersOf(c), log[pos[c] + 1], known_ips[c])
       IN  /\ user_counts' = [user_counts EXCEPT ![Alloc(c)] = cs.u]
           /\ ip_counts' = [ip_counts EXCEPT ![Alloc(c)] = cs.i]
           /\ hourly_counts' = [hourly_counts EXCEPT ![Alloc(c)] = cs.h]
    /\ pos' = [pos EXCEPT ![c] = pos[c] + 1]
    /\ UNCHANGED <<env, pc, known_ips, result, push>>

\* Line 48: the read raises; lines 69-70 swallow it and the counters stay.
ReadError(c) ==
    /\ pc[c] = "loop"
    /\ pos[c] < Len(log)
    /\ failAt = pos[c] + 1
    /\ pc' = [pc EXCEPT ![c] = "ret"]
    /\ UNCHANGED <<env, pos, known_ips, user_counts, ip_counts, hourly_counts, result, push>>

\* Line 48: end of file.
ReadEOF(c) ==
    /\ pc[c] = "loop"
    /\ pos[c] = Len(log)
    /\ pc' = [pc EXCEPT ![c] = "ret"]
    /\ UNCHANGED <<env, pos, known_ips, user_counts, ip_counts, hourly_counts, result, push>>

\* Lines 72-76.
Return(c) ==
    /\ pc[c] = "ret"
    /\ result' = [result EXCEPT ![c] = Snapshot(CountersOf(c))]
    /\ pc' = [pc EXCEPT ![c] = "done"]
    /\ UNCHANGED <<env, pos, known_ips, user_counts, ip_counts, hourly_counts, push>>

Compute(c) ==
    \/ Begin(c)
    \/ OpenOk(c)
    \/ OpenError(c)
    \/ ReadLine(c)
    \/ ReadError(c)
    \/ ReadEOF(c)
    \/ Return(c)

(***************************************************************************)
(* The callers.                                                            *)
(***************************************************************************)
locals == <<known_ips, pos, user_counts, ip_counts, hourly_counts, result>>

\* The handler (or the loop body) ends: the locals of its call are gone.
Forget(c) ==
    /\ known_ips' = [known_ips EXCEPT ![c] = {}]
    /\ pos' = [pos EXCEPT ![c] = 0]
    /\ user_counts' = [user_counts EXCEPT ![Alloc(c)] = Counter]
    /\ ip_counts' = [ip_counts EXCEPT ![Alloc(c)] = Counter]
    /\ hourly_counts' = [hourly_counts EXCEPT ![Alloc(c)] = Counter]
    /\ result' = [result EXCEPT ![c] = EmptySnapshot]

\* A GET /data request arrives: data() calls compute_stats.
DataRequest ==
    /\ pc[Data] = "idle"
    /\ pc' = [pc EXCEPT ![Data] = "start"]
    /\ UNCHANGED <<env, locals, push>>

\* data() returns jsonify(stats).
DataRespond ==
    /\ pc[Data] = "done"
    /\ pc' = [pc EXCEPT ![Data] = "idle"]
    /\ Forget(Data)
    /\ UNCHANGED <<env, sub, greeted, sent>>

\* A subscriber connects: handle_connect calls compute_stats.  Session ids
\* are handed out in order.
Connect(s) ==
    /\ sub[s] = "new"
    /\ \A t \in 1..(s - 1) : sub[t] /= "new"
    /\ sub' = [sub EXCEPT ![s] = "connected"]
    /\ pc' = [pc EXCEPT ![s] = "start"]
    /\ UNCHANGED <<env, locals, greeted, sent>>

\* A connect handler that broadcasts.
ConnectBroadcast(s) == {t \in Sids : sub[t] = "connected"}

\* The recipients of emit() inside the connect handler of s: that subscriber.
ConnectRecipients(s) == {s} \cap {t \in Sids : sub[t] = "connected"}

\* handle_connect emits 'update' to the subscriber that connected.
ConnectEmit(s) ==
    /\ pc[s] = "done"
    /\ sent' = [from |-> "connect", to |-> ConnectRecipients(s), payload |-> result[s]]
    /\ greeted' = [t \in Sids |->
                      IF t \in ConnectRecipients(s) THEN greeted[t] + 1 ELSE greeted[t]]
    /\ pc' = [pc EXCEPT ![s] = "idle"]
    /\ Forget(s)
    /\ UNCHANGED <<env, sub>>

\* A subscriber goes away.
Disconnect(s) ==
    /\ sub[s] = "connected"
    /\ sub' = [sub EXCEPT ![s] = "gone"]
    /\ UNCHANGED <<env, locals, pc, greeted, sent>>

\* background_updates: socketio.sleep(3) returns and compute_stats is called.
Tick ==
    /\ pc[Bg] = "sleep"
    /\ pc' = [pc EXCEPT ![Bg] = "start"]
    /\ UNCHANGED <<env, locals, push>>

\* An emission that is bound to a request context reaches nobody from the
\* background task.
BroadcastNobody == {}

\* The recipients of socketio.emit() outside a handler: every connected subscriber.
BroadcastRecipients == {t \in Sids : sub[t] = "connected"}

\* background_updates emits 'update' and loops.
TickEmit ==
    /\ pc[Bg] = "done"
    /\ sent' = [from |-> "tick", to |-> BroadcastRecipients, payload |-> result[Bg]]
    /\ pc' = [pc EXCEPT ![Bg] = "sleep"]
    /\ Forget(Bg)
    /\ UNCHANGED <<env, sub, greeted>>

(***************************************************************************)
(* The log lines and `last -i` outcomes the specifications draw from.      *)
(***************************************************************************)
LineFailed ==
    <<"Jun", "22", "08:15:20", "host", "sshd:", "Failed", "password", "for", "root",
      "from", "10.0.0.5", "port", "2222">>

LineInvalid ==
    <<"Jun", "5", "09:15:20", "host", "sshd:", "Invalid", "user", "admin",
      "from", "10.0.0.6">>

\* Both patterns match: the first gives (root, 10.0.0.5), the second (bob, 10.0.0.6).
LineBoth ==
    <<"Jun", "22", "08:15:20", "host", "sshd:", "Invalid", "user", "bob", "from",
      "10.0.0.6", "Failed", "password", "for", "root", "from", "10.0.0.5">>

LineDec ==
    <<"Dec", "31", "23:59:59", "host", "sshd:", "Failed", "password", "for", "admin",
      "from", "10.0.0.7">>

LineShort == <<"Jun", "22">>

LineBadMonth ==
    <<"Foo", "22", "08:15:20", "host", "sshd:", "Failed", "password", "for", "root",
      "from", "10.0.0.5">>

LineFeb29 ==
    <<"Feb", "29", "08:15:20", "host", "sshd:", "Failed", "password", "for", "root",
      "from", "10.0.0.6">>

LineAccepted ==
    <<"Jun", "22", "08:15:20", "host", "sshd:", "Accepted", "password", "for", "root",
      "from", "10.0.0.5">>

Corpus == {LineFailed, LineInvalid, LineBoth, LineDec, LineShort,
           LineBadMonth, LineFeb29, LineAccepted}

CommandFails == [ok |-> FALSE, lines |-> <<>>]

LastOne ==
    [ok |-> TRUE,
     lines |-> << <<"root", "pts/0", "10.0.0.5", "Mon">>, <<"wtmp", "begins", "Mon">> >>]

LastTwo ==
    [ok |-> TRUE,
     lines |-> << <<"root", "pts/0", "10.0.0.5", "Mon">>, <<"reboot", "system">>,
                  <<"bob", "pts/1", "10.0.0.6", "Mon">> >>]

LastDisplay ==
    [ok |-> TRUE, lines |-> << <<"root", "tty1", "10.0.0.6:0", "Mon">> >>]

LastOutputs == {CommandFails, LastOne, LastTwo}

NoEmission == [from |-> "none", to |-> {}, payload |-> EmptySnapshot]

\* The state of the process when the server starts, for a given environment.
Start(lines, out, fail, year) ==
    /\ log = lines
    /\ lastOutput = out
    /\ failAt = fail
    /\ clockYear = year
    /\ pc = [c \in Slots |-> IF c = Bg THEN "sleep" ELSE "idle"]
    /\ known_ips = [c \in Slots |-> {}]
    /\ pos = [c \in Slots |-> 0]
    /\ user_counts = [c \in Slots |-> Counter]
    /\ ip_counts = [c \in Slots |-> Counter]
    /\ hourly_counts = [c \in Slots |-> Counter]
    /\ result = [c \in Slots |-> EmptySnapshot]
    /\ sub = [s \in Sids |-> "new"]
    /\ greeted = [s \in Sids |-> 0]
    /\ sent = NoEmission

(***************************************************************************)
(* Spec: /data requests, one after the other, over any log of the corpus.  *)
(***************************************************************************)
\* Where the log can fail: at open, at the read of the last line, or nowhere.
FailPoints(lines) == {0, Len(lines), Len(lines) + 1}

Years == {2026}

Init ==
    \E lines \in SeqsUpTo(Corpus, MaxLines), out \in LastOutputs, year \in Years :
        \E fail \in FailPoints(lines) : Start(lines, out, fail, year)

Next ==
    \/ DataRequest
    \/ Begin(Data)
    \/ OpenOk(Data)
    \/ OpenError(Data)
    \/ ReadLine(Data)
    \/ ReadError(Data)
    \/ ReadEOF(Data)
    \/ Return(Data)
    \/ DataRespond

Spec == Init /\ [][Next]_vars

(***************************************************************************)
(* TopSpec: /data requests over logs with more keys than most_common       *)
(* keeps.  Attacker i has its own user, address and hour.  A log is one    *)
(* line of each of the first TopN - 1 attackers and then up to MaxTopLines *)
(* lines, each the next new attacker's (1), the latest attacker's again    *)
(* (2) or an earlier attacker's again (0).                                 *)
(***************************************************************************)
TopUsers == <<"u07", "u03", "u11", "u01", "u14", "u05", "u09", "u02", "u13", "u06",
              "u10", "u04", "u12", "u08", "u16", "u15">>

Attacker(i) ==
    <<"Jun", Numerals[((i * 7) % 28) + 2], HourTokens[((i * 5) % 24) + 1], "host",
      "sshd:", "Failed", "password", "for", TopUsers[i], "from", IpTable[4 + i][1]>>

TopBase == [i \in 1..(TopN - 1) |-> Attacker(i)]

RECURSIVE TopLog(_)
TopLog(choices) ==
    IF choices = <<>> THEN TopBase
    ELSE LET front == SubSeq(choices, 1, Len(choices) - 1)
             k == Len(TopBase) + Cardinality({j \in 1..Len(front) : front[j] = 1})
             last == choices[Len(choices)]
         IN  TopLog(front) \o
                 <<Attacker(IF last = 1 THEN k + 1
                            ELSE IF last = 2 THEN k
                            ELSE ((Len(choices) * 3) % k) + 1)>>

TopInit ==
    \E choices \in SeqsUpTo({0, 1, 2}, MaxTopLines), year \in Years :
        \E fail \in (IF choices = <<>> THEN FailPoints(TopBase) ELSE {Len(TopLog(choices)) + 1}) :
            Start(TopLog(choices), LastOne, fail, year)

TopSpec == TopInit /\ [][Next]_vars

(***************************************************************************)
(* PushSpec: the push side of the server.  The background task and the     *)
(* connect handlers run interleaved over a log and a session history that  *)
(* do not change.  The background task and every started handler go on     *)
(* running, and socketio.sleep returns.                                    *)
(***************************************************************************)
PushCorpus == {LineFailed}

PushInit ==
    \E lines \in SeqsUpTo(PushCorpus, MaxPushLines), out \in {LastDisplay}, year \in Years :
        \E fail \in FailPoints(lines) : Start(lines, out, fail, year)

\* The steps of a computation other than ReadLine.
Control(c) ==
    \/ Begin(c)
    \/ OpenOk(c)
    \/ OpenError(c)
    \/ ReadError(c)
    \/ ReadEOF(c)
    \/ Return(c)

\* WF_vars(ReadLine(c)), written with what enables ReadLine(c): a ReadLine(c)
\* step always changes pos[c], so <<ReadLine(c)>>_vars is enabled exactly
\* when CanReadLine(c) holds.
ReadLineFair(c) == []<>(~CanReadLine(c)) \/ []<><<ReadLine(c)>>_vars

PushNext ==
    \/ Tick
    \/ TickEmit
    \/ Compute(Bg)
    \/ \E s \in Sids : Connect(s) \/ Compute(s) \/ ConnectEmit(s) \/ Disconnect(s)

\* A thread is at one place at a time, so fairness of each of its steps is
\* fairness of the thread.
PushSpec ==
    /\ PushInit
    /\ [][PushNext]_vars
    /\ WF_vars(Tick \/ Control(Bg) \/ TickEmit)
    /\ ReadLineFair(Bg)
    /\ \A s \in Sids : WF_vars(Control(s) \/ ConnectEmit(s)) /\ ReadLineFair(s)

(***************************************************************************)
(* ServerSpec: PushSpec with /data requests beside the push traffic.       *)
(***************************************************************************)
ServerNext ==
    \/ PushNext
    \/ DataRequest
    \/ Compute(Data)
    \/ DataRespond

ServerSpec == PushInit /\ [][ServerNext]_vars

(***************************************************************************)
(* What the properties speak of.                                           *)
(***************************************************************************)
\* The lines the finished computation was given.
Read == LinesRead(log, failAt)

HasStamp(line) == Len(line) >= 3 /\ Strptime(SubSeq(line, 1, 3)) /= NoDate

MatchesSome(line) == \E k \in 1..Len(PATTERNS) : Search(PATTERNS[k], line).found

\* A line with a valid leading timestamp that matches a failure pattern.
WellFormed(line) == HasStamp(line) /\ MatchesSome(line)

FirstMatch(line) ==
    Search(PATTERNS[CHOOSE k \in 1..Len(PATTERNS) :
                        /\ Search(PATTERNS[k], line).found
                        /\ \A j \in 1..(k - 1) : ~Search(PATTERNS[j], line).found], line)

LabelOf(line) == Strftime(Strptime(SubSeq(line, 1, 3)))

\* Every (line, pattern) match of the lines: position, pattern, user, address, hour.
Matches(lines) ==
    {[at |-> n, pat |-> k, user |-> Search(PATTERNS[k], lines[n]).user,
      ip |-> Search(PATTERNS[k], lines[n]).ip, hour |-> LabelOf(lines[n])] :
        <<n, k>> \in {e \in (1..Len(lines)) \X (1..Len(PATTERNS)) :
                         HasStamp(lines[e[1]]) /\ Search(PATTERNS[e[2]], lines[e[1]]).found}}

ItemKeys(items) == {items[i][1] : i \in 1..Len(items)}

Done(c) == pc[c] = "done"

(***************************************************************************)
(* C1: a finished computation's snapshot has no contribution from an event *)
(* whose address is in the allowlist: no such address is in top_ips, and   *)
(* every user count and every hourly count is covered by the events of     *)
(* that user (that hour) whose address is not in the allowlist.            *)
(***************************************************************************)
C1_AllowlistExcluded ==
    Done(Data) =>
        LET known == known_ips[Data]
            free == {e \in Matches(Read) : e.ip \notin known}
            r == result[Data]
        IN  /\ ItemKeys(r.top_ips) \cap known = {}
            /\ \A n \in 1..Len(r.top_users) :
                  r.top_users[n][2] <=
                      Cardinality({e \in free : e.user = r.top_users[n][1]})
            /\ \A n \in 1..Len(r.hourly) :
                  r.hourly[n][2] <= Cardinality({e \in free : e.hour = r.hourly[n][1]})
            /\ \A n \in 1..Len(r.top_ips) :
                  r.top_ips[n][2] <= Cardinality({e \in free : e.ip = r.top_ips[n][1]})

\* Two events of an allowed address beside a counted event of another address.
C1_Witness ==
    /\ Done(Data)
    /\ Cardinality({e \in Matches(Read) : e.ip \in known_ips[Data]}) >= 2
    /\ result[Data].top_ips /= <<>>

(***************************************************************************)
(* C2: every line contributes at most one event, the first matching        *)
(* pattern's: the counts of a finished computation are those of the first  *)
(* match of each line read, so their total is at most the number of lines. *)
(***************************************************************************)
C2_FirstMatchOnly ==
    Done(Data) =>
        /\ SumCounts(result[Data].hourly) <= Len(Read)
        /\ \A n \in 1..Len(result[Data].top_users) :
              result[Data].top_users[n][2] <=
                  Cardinality({i \in 1..Len(Read) :
                                  /\ WellFormed(Read[i])
                                  /\ FirstMatch(Read[i]).user = result[Data].top_users[n][1]})

(***************************************************************************)
(* C3: when opening the log or a read of it fails, the snapshot of the     *)
(* finished computation is all empty.                                      *)
(***************************************************************************)
C3_AllOrNothing ==
    (Done(Data) /\ failAt <= Len(log)) => result[Data] = EmptySnapshot

(***************************************************************************)
(* C4: every hour label of a finished computation's snapshot is the        *)
(* 'YYYY-MM-DD HH:00' of the month, day and hour of a line read, with the  *)
(* year of the host clock.                                                 *)
(***************************************************************************)
C4_CurrentYear ==
    Done(Data) =>
        ItemKeys(result[Data].hourly) \subseteq
            {Label(clockYear, MonthOf(l[1]), NumeralOf(l[2]), TimeOf(l[3])[1]) :
                l \in {x \in Range(Read) : WellFormed(x)}}

(***************************************************************************)
(* C7: malformed lines (fewer than three tokens, no parseable timestamp,   *)
(* no matching pattern) change nothing and do not end the fold: the        *)
(* snapshot is the snapshot of the lines read with the malformed removed.  *)
(***************************************************************************)
C7_MalformedSkipped ==
    Done(Data) =>
        result[Data] =
            Snapshot(FoldLines(Counters,
                               SelectLines(Read, {l \in Range(Read) : WellFormed(l)}),
                               known_ips[Data]))

\* A counted line after a malformed one.
C7_Witness ==
    /\ Done(Data)
    /\ \E i, j \in 1..Len(Read) :
          /\ i < j
          /\ ~WellFormed(Read[i])
          /\ WellFormed(Read[j])
          /\ LabelOf(Read[j]) \in ItemKeys(result[Data].hourly)

(***************************************************************************)
(* C8: when the session-history command fails, the allowlist is empty and  *)
(* the computation finishes with every well-formed line read counted.      *)
(***************************************************************************)
C8_ResolverFailsOpen ==
    (~lastOutput.ok /\ pc[Data] \notin {"idle", "start"}) =>
        /\ known_ips[Data] = {}
        /\ Done(Data) =>
              /\ \A l \in Range(Read) :
                    WellFormed(l) =>
                        /\ LabelOf(l) \in ItemKeys(result[Data].hourly)
                        /\ FirstMatch(l).ip \in ItemKeys(result[Data].top_ips)
                        /\ FirstMatch(l).user \in ItemKeys(result[Data].top_users)
              /\ SumCounts(result[Data].hourly) >=
                    Cardinality({i \in 1..Len(Read) : WellFormed(Read[i])})

\* The command failed and a line from an address the history would list is counted.
C8_Witness ==
    /\ ~lastOutput.ok
    /\ Done(Data)
    /\ "10.0.0.5" \in ItemKeys(result[Data].top_ips)

\* The matches counted: those whose address is not in the allowlist.
Counted == {e \in Matches(Read) : e.ip \notin known_ips[Data]}

Before(e, f) == e.at < f.at \/ (e.at = f.at /\ e.pat < f.pat)

\* Key k of the matches E under field F comes before key l in the order of the claim.
Ranked(top, E, F(_)) ==
    LET count(k) == Cardinality({e \in E : F(e) = k})
        first(k) == CHOOSE e \in E : F(e) = k /\ \A f \in E : F(f) = k => ~Before(f, e)
        ahead(k, l) ==
            count(k) > count(l) \/ (count(k) = count(l) /\ Before(first(k), first(l)))
        keys == {F(e) : e \in E}
    IN  /\ Len(top) = Min(10, Cardinality(keys))
        /\ \A n \in 1..Len(top) : top[n][1] \in keys /\ top[n][2] = count(top[n][1])
        /\ \A n \in 1..(Len(top) - 1) : ahead(top[n][1], top[n + 1][1])
        /\ \A k \in keys \ ItemKeys(top) : \A n \in 1..Len(top) : ahead(top[n][1], k)

UserOf(e) == e.user

IpOf(e) == e.ip

(***************************************************************************)
(* C5: top_users and top_ips are the keys of the user and address counters *)
(* by descending count, cut to the first 10, keys of equal count in the    *)
(* order in which the fold first counted them; a key is left out only      *)
(* behind 10 keys that come before it in that order.                       *)
(***************************************************************************)
C5_TopTenStable ==
    Done(Data) =>
        /\ Ranked(result[Data].top_users, Counted, UserOf)
        /\ Ranked(result[Data].top_ips, Counted, IpOf)

\* More than 10 users, counts that differ, and a tie across the cut: the 10th
\* user of the snapshot and a user left out have the same count.
C5_Witness ==
    /\ Done(Data)
    /\ Len(user_counts[Alloc(Data)]) > 10
    /\ result[Data].top_users[1][2] > result[Data].top_users[10][2]
    /\ \E n \in 1..Len(user_counts[Alloc(Data)]) :
          /\ user_counts[Alloc(Data)][n][1] \notin ItemKeys(result[Data].top_users)
          /\ user_counts[Alloc(Data)][n][2] = result[Data].top_users[10][2]

(***************************************************************************)
(* C6: top_users and top_ips hold at most 10 entries; hourly holds exactly *)
(* one entry for every hour label that received a counted event, however   *)
(* many there are, in strictly ascending order of the label.               *)
(***************************************************************************)
C6_CapsAndHourly ==
    Done(Data) =>
        LET r == result[Data]
            labels == {e.hour : e \in Counted}
        IN  /\ Len(r.top_users) <= 10
            /\ Len(r.top_ips) <= 10
            /\ ItemKeys(r.hourly) = labels
            /\ Len(r.hourly) = Cardinality(labels)
            /\ \A n \in 1..(Len(r.hourly) - 1) : StrLess(r.hourly[n][1], r.hourly[n + 1][1])

\* More than 10 hour labels, counted in an order that is not the sorted one.
C6_Witness ==
    /\ Done(Data)
    /\ Len(result[Data].hourly) > 10
    /\ Len(user_counts[Alloc(Data)]) > 10
    /\ hourly_counts[Alloc(Data)] /= result[Data].hourly

\* The subscribers connected now.
Connected == {t \in Sids : sub[t] = "connected"}

C10_Independent ==
    LET alone == compute_stats(log, lastOutput, failAt)
        known == get_known_ips(lastOutput)
    IN  /\ \A c \in Slots :
              /\ pc[c] = "loop" =>
                    CountersOf(c) = FoldLines(Counters, SubSeq(log, 1, pos[c]), known)
              /\ pc[c] = "ret" => CountersOf(c) = FoldLines(Counters, Read, known)
              /\ pc[c] = "done" => result[c] = alone
        /\ sent.from /= "none" => sent.payload = alone

\* The background task and a connect handler are at different lines of the
\* log, with different counts, while the /data handler holds a finished snapshot.
C10_Witness ==
    /\ pc[Bg] = "loop"
    /\ Done(Data)
    /\ result[Data].top_users /= <<>>
    /\ \E s \in Sids :
          /\ pc[s] = "loop"
          /\ pos[s] > pos[Bg]
          /\ user_counts[Alloc(s)] /= user_counts[Alloc(Bg)]

====
